---------------------------- MODULE Spec2Model ----------------------------
(***************************************************************************)
(* A model of src/src/main.rs: a Postgres-backed job queue.  Each worker   *)
(* is one run of `main`: it inserts 20 Queued jobs and then issues four    *)
(* times the statement                                                     *)
(*     UPDATE jobs SET status = 'Running' WHERE id IN                      *)
(*       (SELECT id FROM jobs WHERE status = 'Queued' ORDER BY id          *)
(*        LIMIT 5 FOR UPDATE SKIP LOCKED) RETURNING ...                    *)
(* on a pool connection (autocommit), dispatching the returned rows to     *)
(* work_on_payload.  Several workers run against the same table.           *)
(*                                                                         *)
(* The statement is modelled by the steps the database takes for it under  *)
(* READ COMMITTED: take the statement snapshot, lock the selected rows     *)
(* (skipping rows locked by others and re-checking rows changed since the  *)
(* snapshot), write the new status, commit.  The rows of a batch are kept  *)
(* in id order (the order in which the statement's scan meets them).       *)
(*                                                                         *)
(* Spec is the program as it is.  ConvSpec runs the loop of the first      *)
(* statement over one fetched row drawn from a set of rows, for the        *)
(* conversion to DomainJob.  LoopSpec issues the claim statement again     *)
(* and again on the table of one insert, with fairness, for liveness.      *)
(***************************************************************************)
EXTENDS Integers, Sequences, FiniteSets, TLC

\* ------------------------------------------------------------- bounds
NumWorkers == 2
MaxFailIds == 1

\* ------------------------------------------------- program constants
NumRows == 20
NumRounds == 4

\* Mutant: LIMIT 4.
BatchLimit_Short == 2 + 2

BatchLimit == 5

Workers == 1..NumWorkers

\* ---------------------------------------------------------------- ids
\* jobs.id is an i64.  TLC's integers are 32 bits wide, so an id is held as
\* two limbs <<hi, lo>> standing for hi * 2^16 + lo, with 0 <= lo < 2^16.
IdBase == 256 * 256

\* The id n, for 0 <= n < 2^16.
Id(n) == <<0, n>>

\* a + n, for a small n >= 0.
IdAdd(a, n) ==
    LET t == a[2] + n IN <<a[1] + (t \div IdBase), t % IdBase>>

IdLess(a, b) == a[1] < b[1] \/ (a[1] = b[1] /\ a[2] < b[2])
IdLeq(a, b) == a = b \/ IdLess(a, b)

\* u32::MAX, 4294967295.
U32Max == <<IdBase - 1, IdBase - 1>>

\* ---------------------------------------------------------- sequences
\* The ids of S in ascending order (ORDER BY id): the i-th is the one with
\* i - 1 ids of S below it.
SortedSeq(S) ==
    [i \in 1..Cardinality(S) |->
        CHOOSE x \in S : Cardinality({y \in S : IdLess(y, x)}) = i - 1]

\* ORDER BY id LIMIT n: the n smallest ids of S in ascending order (all of S
\* when it has fewer).
OrderByIdLimit(S, n) ==
    LET m == IF Cardinality(S) < n THEN Cardinality(S) ELSE n
    IN  [i \in 1..m |->
            CHOOSE x \in S : Cardinality({y \in S : IdLess(y, x)}) = i - 1]

Range(s) == {s[i] : i \in 1..Len(s)}

\* ------------------------------------------------------------- values
\* JobStatus (a Postgres enum JOB_STATUS).
JobStatus == {"Queued", "Running", "Failed"}

\* Payload and Params values, a variant name followed by its fields.
PayloadNOOP == <<"NOOP">>
PayloadSendEmail(email) == <<"SendEmail", email>>
ParamsNOOP == <<"NOOP">>
ParamsFollowUp(b) == <<"FollowUp", b>>

\* Option<T>: None is the empty sequence, Some(x) is <<x>>.
None == <<>>
Some(x) == <<x>>

\* JSON documents, as stored in the payload and params columns.
JStr(s) == <<"str", s>>
JBool(b) == <<"bool", b>>
JNull == <<"null">>
JObj(k, v) == <<"obj", k, v>>

\* Result<T, E>.
Ok(v) == <<"Ok", v>>
Err(e) == <<"Err", e>>
IsOk(r) == r[1] = "Ok"

\* ------------------------------------------------------------- codec
\* serde's externally tagged encoding of the two enums (json!(..)).
EncodePayload(p) ==
    IF p[1] = "NOOP" THEN JStr("NOOP")
    ELSE JObj("SendEmail", JObj("email", JStr(p[2])))

\* Mutant: Params serialized untagged (the value alone, without its variant).
EncodeParams_Untagged(p) ==
    IF p[1] = "NOOP" THEN JNull ELSE JBool(p[2])

EncodeParams(p) ==
    IF p[1] = "NOOP" THEN JStr("NOOP")
    ELSE JObj("FollowUp", JBool(p[2]))

\* serde's decoding: a unit variant is its name as a string (or the
\* one-key object {name: null}); a variant with fields is a one-key object.
DecodePayload(j) ==
    IF j[1] = "str"
    THEN IF j[2] = "NOOP" THEN Ok(PayloadNOOP) ELSE Err("unknown variant")
    ELSE IF j[1] = "obj"
    THEN IF j[2] = "NOOP"
         THEN IF j[3][1] = "null" THEN Ok(PayloadNOOP) ELSE Err("invalid type")
         ELSE IF j[2] = "SendEmail"
         THEN IF j[3][1] = "obj" /\ j[3][2] = "email" /\ j[3][3][1] = "str"
              THEN Ok(PayloadSendEmail(j[3][3][2]))
              ELSE Err("invalid type")
         ELSE Err("unknown variant")
    ELSE Err("invalid type")

DecodeParams(j) ==
    IF j[1] = "str"
    THEN IF j[2] = "NOOP" THEN Ok(ParamsNOOP) ELSE Err("unknown variant")
    ELSE IF j[1] = "obj"
    THEN IF j[2] = "NOOP"
         THEN IF j[3][1] = "null" THEN Ok(ParamsNOOP) ELSE Err("invalid type")
         ELSE IF j[2] = "FollowUp"
         THEN IF j[3][1] = "bool" THEN Ok(ParamsFollowUp(j[3][2]))
              ELSE Err("invalid type")
         ELSE Err("unknown variant")
    ELSE Err("invalid type")

\* A nullable params column: NULL is None, anything else is decoded.
DecodeOptParams(c) ==
    IF c = None THEN Ok(None)
    ELSE LET r == DecodeParams(c[1])
         IN  IF IsOk(r) THEN Ok(Some(r[2])) ELSE r

\* ------------------------------------------------------- domain job
\* Mutant: the cast `id as u32`, which wraps instead of failing.
U32TryFrom_AsCast(id) == Ok(<<id[1] % IdBase, id[2]>>)

\* u32::try_from(id) on an i64.
U32TryFrom(id) ==
    IF IdLeq(Id(0), id) /\ IdLeq(id, U32Max) THEN Ok(id) ELSE Err("TryFromIntError")

\* nid / 3 on a u32, as a number: 2^16 = 3 * 21845 + 1.
Div3(nid) == nid[1] * ((IdBase - 1) \div 3) + ((nid[1] + nid[2]) \div 3)

\* format!("BATCH({})", n)
FormatBatch(n) == <<"BATCH(", n, ")">>

\* TryFrom<JobRow> for DomainJob; a JobRow's payload is already decoded.
TryFromJobRow(value) ==
    LET nid == U32TryFrom(value.id)
    IN  IF ~IsOk(nid) THEN nid
        ELSE Ok([identifier |-> FormatBatch(Div3(nid[2])),
                 status     |-> value.status,
                 payload    |-> value.payload])

\* -------------------------------------------------------- the handler
ToAsciiUppercase(s) ==
    IF s = "user@example.com" THEN "USER@EXAMPLE.COM" ELSE s

\* work_on_payload: what it prints.
WorkOnPayload(payload) ==
    IF payload[1] = "NOOP" THEN <<"NOOP!">>
    ELSE <<"EMAIL", ToAsciiUppercase(payload[2])>>

\* ---------------------------------------------------------- the rows
\* The VALUES list of insert_jobs: row i (1..20) of the statement.
TheEmail == "user@example.com"

\* Mutant: the two payload arguments swapped.
InsertPayload_Swapped(i) ==
    IF i % 2 = 0 THEN EncodePayload(PayloadNOOP)
    ELSE EncodePayload(PayloadSendEmail(TheEmail))

\* The payload of row i: $2 on the odd rows, $3 on the even rows.
PayloadArg(i) ==
    IF i % 2 = 1 THEN PayloadNOOP ELSE PayloadSendEmail(TheEmail)

\* The params of row i: $4 on row 2, $5 on row 7, $6 on row 14, else NULL.
ParamsArg(i) ==
    IF i = 2 THEN Some(ParamsNOOP)
    ELSE IF i = 7 THEN Some(ParamsFollowUp(TRUE))
    ELSE IF i = 14 THEN Some(ParamsFollowUp(FALSE))
    ELSE None

InsertPayload(i) == EncodePayload(PayloadArg(i))

InsertParams(i) ==
    IF ParamsArg(i) = None THEN None ELSE Some(EncodeParams(ParamsArg(i)[1]))

InsertedRow(i) ==
    [status |-> "Queued", payload |-> InsertPayload(i), params |-> InsertParams(i)]


\* A row written by another producer whose payload names a variant this
\* program does not know.
ForeignRow ==
    [status |-> "Queued", payload |-> JStr("Reindex"), params |-> None]

\* --------------------------------------------------------------- state
VARIABLES
    table,        \* the committed jobs table: id -> [status, payload, params]
    nextId,       \* the identity sequence of jobs.id
    pc,           \* pc[w]: where worker w is in main
    round,        \* round[w]: which of the four claim statements (1..4)
    snap,         \* snap[w]: the ids Queued in the statement's snapshot
    sel,          \* sel[w]: the ids whose rows w's transaction has locked
    batch,        \* batch[w]: the rows the last statement returned (jobs, records, pg_rows)
    returned,     \* returned[w][k]: the ids the k-th statement returned
    handled,      \* handled[w]: what work_on_payload printed, in order
    domain_jobs,  \* domain_jobs[w]: the Vec<DomainJob> of main
    err,          \* err[w]: the error w panicked on ("" while it has not)
    base,         \* history: base[w] is the first id of the rows w inserted (0 before)
    late,         \* history: some insert came after a claim statement had begun
    rolled        \* history: rolled[w] is the ids locked by the transaction of w that aborted

vars == <<table, nextId, pc, round, snap, sel, batch, returned, handled,
          domain_jobs, err, base, late, rolled>>

Ids == DOMAIN table

\* The stores a run can start from: an empty table with a fresh sequence, a
\* sequence that has nearly used up the u32 range, and a table that holds a
\* row of another producer.
InitialStores ==
    { [nextId |-> Id(1), table |-> [id \in {} |-> ForeignRow]],
      [nextId |-> <<IdBase - 1, IdBase - 2>>, table |-> [id \in {} |-> ForeignRow]],
      [nextId |-> Id(2), table |-> [id \in {Id(1)} |-> ForeignRow]] }

Init ==
    /\ \E s \in InitialStores : nextId = s.nextId /\ table = s.table
    /\ pc = [w \in Workers |-> "insert"]
    /\ round = [w \in Workers |-> 1]
    /\ snap = [w \in Workers |-> {}]
    /\ sel = [w \in Workers |-> {}]
    /\ batch = [w \in Workers |-> <<>>]
    /\ returned = [w \in Workers |-> <<>>]
    /\ handled = [w \in Workers |-> <<>>]
    /\ domain_jobs = [w \in Workers |-> <<>>]
    /\ err = [w \in Workers |-> ""]
    /\ base = [w \in Workers |-> Id(0)]
    /\ late = FALSE
    /\ rolled = [w \in Workers |-> {}]

\* Worker v has begun a claim statement.
Started(v) == pc[v] \notin {"insert", "claim"} \/ round[v] > 1

\* ------------------------------------------------------------ insert
\* insert_jobs().execute(&pg_pool): one statement, 20 rows, fresh ids.
Insert(w) ==
    /\ pc[w] = "insert"
    /\ table' = [id \in Ids \cup {IdAdd(nextId, i - 1) : i \in 1..NumRows} |->
                    IF id \in Ids THEN table[id]
                    ELSE InsertedRow(CHOOSE i \in 1..NumRows : id = IdAdd(nextId, i - 1))]
    /\ nextId' = IdAdd(nextId, NumRows)
    /\ base' = [base EXCEPT ![w] = nextId]
    /\ late' = (late \/ \E v \in Workers : Started(v))
    /\ pc' = [pc EXCEPT ![w] = "claim"]
    /\ UNCHANGED <<round, snap, sel, batch, returned, handled, domain_jobs, err,
                   rolled>>

\* ------------------------------------------------- the claim statement
\* WHERE status = 'Queued', as of the statement's snapshot.
QueuedIds == {id \in Ids : table[id].status = "Queued"}

\* The statement starts: READ COMMITTED takes its snapshot.
BeginClaim(w) ==
    /\ pc[w] = "claim"
    /\ snap' = [snap EXCEPT ![w] = QueuedIds]
    /\ pc' = [pc EXCEPT ![w] = "snapshot"]
    /\ UNCHANGED <<table, nextId, round, sel, batch, returned, handled,
                   domain_jobs, err, base, late, rolled>>

\* Mutant: the selection does not see the locks of other transactions.
LockedByOthers_None(w) == {}

\* The rows locked by transactions other than w's.
LockedByOthers(w) == UNION {sel[v] : v \in Workers \ {w}}

\* Mutant: a locked row is not re-checked against its latest version.
Lockable_NoRecheck(w) == {id \in snap[w] : id \notin LockedByOthers(w)}

\* FOR UPDATE SKIP LOCKED: a row of the snapshot is taken unless another
\* transaction holds its lock, or its latest committed version is no longer
\* Queued (the re-check after locking a row changed since the snapshot).
Lockable(w) ==
    {id \in snap[w] : id \notin LockedByOthers(w) /\ table[id].status = "Queued"}

\* Mutant: ORDER BY id DESC.
SelectForUpdate_Desc(w) ==
    LET S == Lockable(w)
        n == IF Cardinality(S) < BatchLimit THEN Cardinality(S) ELSE BatchLimit
    IN  [i \in 1..n |-> CHOOSE x \in S : Cardinality({y \in S : IdLess(x, y)}) = i - 1]

\* Mutant: the LIMIT counts the rows locked by others before they are skipped.
SelectForUpdate_LimitFirst(w) ==
    SelectSeq(OrderByIdLimit(snap[w], BatchLimit), LAMBDA id : id \in Lockable(w))

\* ORDER BY id LIMIT 5 over the rows that could be locked.
SelectForUpdate(w) == OrderByIdLimit(Lockable(w), BatchLimit)

LockRows(w) ==
    /\ pc[w] = "snapshot"
    /\ sel' = [sel EXCEPT ![w] = Range(SelectForUpdate(w))]
    /\ pc' = [pc EXCEPT ![w] = "locked"]
    /\ UNCHANGED <<table, nextId, round, snap, batch, returned, handled,
                   domain_jobs, err, base, late, rolled>>

\* SET status = 'Running' WHERE id IN (..): the new row versions are
\* written, uncommitted, under the locks.
Update(w) ==
    /\ pc[w] = "locked"
    /\ pc' = [pc EXCEPT ![w] = "updated"]
    /\ UNCHANGED <<table, nextId, round, snap, sel, batch, returned, handled,
                   domain_jobs, err, base, late, rolled>>

\* Mutant: the statement writes the status the rows already had.
NewStatus_Queued == "Queued"

\* The status the statement wrote.
NewStatus == "Running"

\* Mutant: an UPDATE without its WHERE clause.
Committed_NoWhere(w) ==
    [id \in Ids |-> [table[id] EXCEPT !.status = NewStatus]]

\* Mutant: the statement also resets the params of the rows it updates.
Committed_ClearsParams(w) ==
    [id \in Ids |-> IF id \in sel[w]
                    THEN [table[id] EXCEPT !.status = NewStatus, !.params = None]
                    ELSE table[id]]

\* The table once w's transaction has committed.
Committed(w) ==
    [id \in Ids |-> IF id \in sel[w]
                    THEN [table[id] EXCEPT !.status = NewStatus]
                    ELSE table[id]]

\* Mutant: RETURNING gives the rows as they were before the update.
Returning_OldRows(w) ==
    LET ids == SortedSeq(sel[w])
    IN  [i \in 1..Len(ids) |->
            [id      |-> ids[i],
             status  |-> table[ids[i]].status,
             payload |-> table[ids[i]].payload,
             params  |-> table[ids[i]].params]]

\* RETURNING id, status, payload, params: the updated rows.
Returning(w) ==
    LET ids == SortedSeq(sel[w])
    IN  [i \in 1..Len(ids) |->
            [id      |-> ids[i],
             status  |-> NewStatus,
             payload |-> table[ids[i]].payload,
             params  |-> table[ids[i]].params]]

\* Mutant: a transaction left open over the loop, its locks kept.
Commit_KeepLocks(w) ==
    /\ pc[w] = "updated"
    /\ table' = Committed(w)
    /\ batch' = [batch EXCEPT ![w] = Returning(w)]
    /\ returned' = [returned EXCEPT ![w] = Append(@, SortedSeq(sel[w]))]
    /\ snap' = [snap EXCEPT ![w] = {}]
    /\ pc' = [pc EXCEPT ![w] = "fetched"]
    /\ UNCHANGED <<nextId, round, sel, handled, domain_jobs, err, base, late, rolled>>

\* The statement completes and its implicit transaction commits: the new
\* versions become visible, the locks go, the rows reach the client.
Commit(w) ==
    /\ pc[w] = "updated"
    /\ table' = Committed(w)
    /\ batch' = [batch EXCEPT ![w] = Returning(w)]
    /\ returned' = [returned EXCEPT ![w] = Append(@, SortedSeq(sel[w]))]
    /\ sel' = [sel EXCEPT ![w] = {}]
    /\ snap' = [snap EXCEPT ![w] = {}]
    /\ pc' = [pc EXCEPT ![w] = "fetched"]
    /\ UNCHANGED <<nextId, round, handled, domain_jobs, err, base, late, rolled>>

\* Mutant: the row versions written before the failure stay.
RolledBack_Applied(w) == IF pc[w] = "updated" THEN Committed(w) ELSE table

\* The table once w's transaction has rolled back: its uncommitted row
\* versions are discarded.
RolledBack(w) == table

\* Mutant: the failed transaction's session lives on and keeps its row locks.
Abort_KeepLocks(w) ==
    /\ pc[w] \in {"snapshot", "locked", "updated"}
    /\ table' = RolledBack(w)
    /\ rolled' = [rolled EXCEPT ![w] = sel[w]]
    /\ snap' = [snap EXCEPT ![w] = {}]
    /\ pc' = [pc EXCEPT ![w] = "panicked"]
    /\ err' = [err EXCEPT ![w] = "Io"]
    /\ domain_jobs' = [domain_jobs EXCEPT ![w] = <<>>]
    /\ UNCHANGED <<nextId, round, sel, batch, returned, handled, base, late>>

\* The statement fails before its commit (the connection is lost, the
\* server aborts it): the transaction rolls back and .expect(..) panics.
Abort(w) ==
    /\ pc[w] \in {"snapshot", "locked", "updated"}
    /\ table' = RolledBack(w)
    /\ rolled' = [rolled EXCEPT ![w] = sel[w]]
    /\ sel' = [sel EXCEPT ![w] = {}]
    /\ snap' = [snap EXCEPT ![w] = {}]
    /\ pc' = [pc EXCEPT ![w] = "panicked"]
    /\ err' = [err EXCEPT ![w] = "Io"]
    /\ domain_jobs' = [domain_jobs EXCEPT ![w] = <<>>]
    /\ UNCHANGED <<nextId, round, batch, returned, handled, base, late>>

\* ------------------------------------------------------- the dispatch
\* What FromRow needs of a row for JobRow: a Json<Payload> and an
\* Option<Json<Params>>.
RowDecodes(row) ==
    IsOk(DecodePayload(row.payload)) /\ IsOk(DecodeOptParams(row.params))

\* fetch_all of the first two statements (query_as!, query_as) maps every row
\* to a JobRow and fails as a whole when one row does not decode; the last
\* two (query!, query) hand out the rows as they are.
FetchAll(rows, r) ==
    IF r <= 2 /\ \E i \in 1..Len(rows) : ~RowDecodes(rows[i])
    THEN Err("ColumnDecode")
    ELSE Ok(rows)

\* One pass of the body of the for loop of statement r over a row; acc is
\* [handled, domain, err] so far.
LoopBody(row, r, acc) ==
    LET payload == DecodePayload(row.payload)
        params  == DecodeOptParams(row.params)
    IN  IF r = 1 THEN
            LET job == TryFromJobRow([id |-> row.id, status |-> row.status,
                                      payload |-> payload[2]])
                out == Append(acc.handled, WorkOnPayload(payload[2]))
            IN  IF IsOk(job)
                THEN [acc EXCEPT !.handled = out,
                                 !.domain = Append(acc.domain, job[2])]
                ELSE [acc EXCEPT !.handled = out,
                                 !.err = "TryFromIntError"]
        ELSE IF r = 2 THEN
            [acc EXCEPT !.handled = Append(acc.handled, WorkOnPayload(payload[2]))]
        ELSE IF r = 3 THEN
            IF IsOk(payload)
            THEN [acc EXCEPT !.handled = Append(acc.handled, WorkOnPayload(payload[2]))]
            ELSE [acc EXCEPT !.err = "serde_json::Error"]
        ELSE
            IF IsOk(payload) /\ IsOk(params)
            THEN [acc EXCEPT !.handled = Append(acc.handled, WorkOnPayload(payload[2]))]
            ELSE [acc EXCEPT !.err = "ColumnDecode"]

RECURSIVE ForLoop(_, _, _)
\* for job in jobs { .. }: the loop stops at the first panic.
ForLoop(rows, r, acc) ==
    IF rows = <<>> \/ acc.err # "" THEN acc
    ELSE ForLoop(Tail(rows), r, LoopBody(Head(rows), r, acc))

\* The client's side of statement r: fetch_all(..).expect(..), then the loop.
Process(w) ==
    LET got == FetchAll(batch[w], round[w])
        acc == [handled |-> handled[w], domain |-> domain_jobs[w], err |-> ""]
    IN  IF IsOk(got) THEN ForLoop(got[2], round[w], acc)
        ELSE [acc EXCEPT !.err = got[2]]

\* A panic unwinds main: its locals are dropped.  Otherwise main goes on to
\* the next statement, or returns after the last.
Dispatch(w) ==
    /\ pc[w] = "fetched"
    /\ LET res == Process(w)
       IN  /\ handled' = [handled EXCEPT ![w] = res.handled]
           /\ err' = [err EXCEPT ![w] = res.err]
           /\ domain_jobs' = [domain_jobs EXCEPT ![w] =
                                 IF res.err = "" THEN res.domain ELSE <<>>]
           /\ pc' = [pc EXCEPT ![w] =
                        IF res.err # "" THEN "panicked"
                        ELSE IF round[w] < NumRounds THEN "claim" ELSE "done"]
           /\ round' = [round EXCEPT ![w] =
                           IF res.err = "" /\ round[w] < NumRounds THEN @ + 1 ELSE @]
    /\ batch' = [batch EXCEPT ![w] = <<>>]
    /\ UNCHANGED <<table, nextId, snap, sel, returned, base, late, rolled>>

\* ---------------------------------------------------- the worker loop
\* The table after insert_jobs on the empty table with a fresh sequence, the
\* workers about to issue a claim statement.
LoopInit ==
    /\ table = [id \in {Id(i) : i \in 1..NumRows} |-> InsertedRow(id[2])]
    /\ nextId = Id(NumRows + 1)
    /\ pc = [w \in Workers |-> "claim"]
    /\ round = [w \in Workers |-> 1]
    /\ snap = [w \in Workers |-> {}]
    /\ sel = [w \in Workers |-> {}]
    /\ batch = [w \in Workers |-> <<>>]
    /\ returned = [w \in Workers |-> <<>>]
    /\ handled = [w \in Workers |-> <<>>]
    /\ domain_jobs = [w \in Workers |-> <<>>]
    /\ err = [w \in Workers |-> ""]
    /\ base = [w \in Workers |-> IF w = 1 THEN Id(1) ELSE Id(0)]
    /\ late = FALSE
    /\ rolled = [w \in Workers |-> {}]

\* The worker goes from the rows of one statement to the next statement, as
\* main does from each of its statements to the following one, without end.
NextClaim(w) ==
    /\ pc[w] = "fetched"
    /\ pc' = [pc EXCEPT ![w] = "claim"]
    /\ batch' = [batch EXCEPT ![w] = <<>>]
    /\ returned' = [returned EXCEPT ![w] = <<>>]
    /\ UNCHANGED <<table, nextId, round, snap, sel, handled, domain_jobs, err,
                   base, late, rolled>>

LoopNext ==
    \/ \E w \in Workers : BeginClaim(w)
    \/ \E w \in Workers : LockRows(w)
    \/ \E w \in Workers : Update(w)
    \/ \E w \in Workers : Commit(w)
    \/ \E w \in Workers : Abort(w)
    \/ \E w \in Workers : NextClaim(w)

\* Every step of a worker that can be taken is eventually taken, the commit
\* unless the statement fails first: every claim transaction eventually
\* commits or aborts.  A store error is never bound to happen.
LoopFairness ==
    \A w \in Workers :
        /\ WF_vars(BeginClaim(w)) /\ WF_vars(LockRows(w)) /\ WF_vars(Update(w))
        /\ WF_vars(Commit(w)) /\ WF_vars(NextClaim(w))

LoopSpec == LoopInit /\ [][LoopNext]_vars /\ LoopFairness

\* ------------------------------------------------ conversion of a row
\* The ids a fetched row is given: around 0, around the groups of 3, around
\* 2^16 and around u32::MAX, on both sides.
ConvIds ==
    {<<-1, 0>>, <<-1, IdBase - 2>>, <<-1, IdBase - 1>>}
        \cup {Id(n) : n \in 0..8}
        \cup {<<0, IdBase - 1>>, <<1, 0>>, <<1, 1>>, <<1, 2>>}
        \cup {<<IdBase - 1, IdBase - 3>>, <<IdBase - 1, IdBase - 2>>, U32Max}
        \cup {<<IdBase, 0>>, <<IdBase, 1>>, <<IdBase + 1, 5>>}

\* The rows the first statement can hand to its loop: any id, any status, a
\* payload and params that decode.
ConvRows ==
    [id      : ConvIds,
     status  : JobStatus,
     payload : {EncodePayload(PayloadNOOP), EncodePayload(PayloadSendEmail(TheEmail))},
     params  : {None, Some(EncodeParams(ParamsFollowUp(TRUE)))}]

\* Worker 1 has fetched a one-row batch from its first statement; the table
\* holds that row; the other workers have returned.
ConvInit ==
    \E row \in ConvRows :
        /\ table = [id \in {row.id} |->
                       [status |-> row.status, payload |-> row.payload,
                        params |-> row.params]]
        /\ nextId = IdAdd(row.id, 1)
        /\ pc = [w \in Workers |-> IF w = 1 THEN "fetched" ELSE "done"]
        /\ round = [w \in Workers |-> IF w = 1 THEN 1 ELSE NumRounds]
        /\ snap = [w \in Workers |-> {}]
        /\ sel = [w \in Workers |-> {}]
        /\ batch = [w \in Workers |-> IF w = 1 THEN <<row>> ELSE <<>>]
        /\ returned = [w \in Workers |-> IF w = 1 THEN <<<<row.id>>>> ELSE <<>>]
        /\ handled = [w \in Workers |-> <<>>]
        /\ domain_jobs = [w \in Workers |-> <<>>]
        /\ err = [w \in Workers |-> ""]
        /\ base = [w \in Workers |-> Id(0)]
        /\ late = FALSE
        /\ rolled = [w \in Workers |-> {}]

\* The loop of the first statement runs over the batch.
ConvNext == \E w \in Workers : Dispatch(w)

ConvSpec == ConvInit /\ [][ConvNext]_vars

\* ------------------------------------------------- the failure report
\* The ids a failure may be reported for: those within MaxFailIds of the
\* smallest id of the table.
FailScope ==
    IF Ids = {} THEN {}
    ELSE LET m == CHOOSE x \in Ids : \A y \in Ids : IdLeq(x, y)
         IN  {id \in Ids : IdLess(id, IdAdd(m, MaxFailIds))}

\* Mark a Running job Failed, in a transaction of its own.
ReportFailed(id) ==
    /\ table[id].status = "Running"
    /\ table' = [table EXCEPT ![id].status = "Failed"]
    /\ UNCHANGED <<nextId, pc, round, snap, sel, batch, returned, handled,
                   domain_jobs, err, base, late, rolled>>

\* --------------------------------------------------- the specification
Next ==
    \/ \E w \in Workers : Insert(w)
    \/ \E w \in Workers : BeginClaim(w)
    \/ \E w \in Workers : LockRows(w)
    \/ \E w \in Workers : Update(w)
    \/ \E w \in Workers : Commit(w)
    \/ \E w \in Workers : Abort(w)
    \/ \E w \in Workers : Dispatch(w)
    \/ \E id \in FailScope : ReportFailed(id)

Spec == Init /\ [][Next]_vars

\* -------------------------------------------------------- properties
\* The ids the statements of w have returned so far.
AllReturned(w) == UNION {Range(returned[w][k]) : k \in 1..Len(returned[w])}

\* The ids w has claimed: those returned, and those its running
\* transaction has selected.
Claimed(w) == sel[w] \cup AllReturned(w)

\* The statements that have returned: <<worker, number>>.
Calls == {<<w, k>> : w \in Workers, k \in 1..NumRounds}
Returned == {c \in Calls : c[2] <= Len(returned[c[1]])}

\* The n smallest ids of S (all of S when it has fewer).
Smallest(S, n) == {x \in S : Cardinality({y \in S : IdLess(y, x)}) < n}

InFlight(w) == pc[w] \in {"locked", "updated"}
AllDone == \A w \in Workers : pc[w] = "done"

\* No other worker has begun a claim statement.
Alone(w) == \A v \in Workers \ {w} : ~Started(v)

\* C1 (mutual exclusion): the ids claimed by two different workers, whether
\* returned to them or selected by their running transactions, are disjoint,
\* in every interleaving of the lock, update and commit steps.
C1_MutualExclusion ==
    \A w, v \in Workers : w # v => Claimed(w) \cap Claimed(v) = {}

\* Two transactions hold selections at the same time.
C1_Witness ==
    \E w, v \in Workers :
        w # v /\ InFlight(w) /\ InFlight(v) /\ sel[w] # {} /\ sel[v] # {}

\* C2 (no loss, no duplication): when every job was inserted before the first
\* claim statement began and all statements of all workers have committed
\* (capacity NumRounds * BatchLimit per worker, NumRows jobs per worker), the
\* returned ids are exactly the jobs of the table and none was returned twice.
C2_NoLossNoDuplication ==
    (AllDone /\ ~late) =>
        /\ UNION {AllReturned(w) : w \in Workers} = Ids
        /\ \A c, d \in Returned :
              c # d => Range(returned[c[1]][c[2]]) \cap Range(returned[d[1]][d[2]]) = {}

\* All statements have committed, and the workers' batches interleaved: some
\* worker's first batch is not made of its own rows.
C2_Witness ==
    /\ AllDone /\ ~late
    /\ Cardinality(Ids) = NumWorkers * NumRows
    /\ \E w \in Workers : base[w] \notin Range(returned[w][1])

\* No statement has returned a row yet: no job has been claimed.
NoPriorClaims == \A v \in Workers : AllReturned(v) = {}

\* C3 (fairness bound): when a statement locks its rows while no job has been
\* claimed before and no other transaction holds a row lock, it selects
\* exactly the BatchLimit smallest ids that were Queued when it began (all of
\* them when there are fewer).
C3_FairnessBound ==
    [][\A w \in Workers :
          (/\ pc[w] = "snapshot" /\ pc'[w] = "locked"
           /\ NoPriorClaims /\ LockedByOthers(w) = {}) =>
              sel'[w] = Smallest(snap[w], BatchLimit)]_vars

\* A first statement has selected 5 of more than 5 Queued rows, with another
\* worker's statement begun and holding no lock.
C3_Witness ==
    \E w, v \in Workers :
        /\ w # v /\ pc[w] = "locked" /\ pc[v] = "snapshot"
        /\ NoPriorClaims /\ LockedByOthers(w) = {}
        /\ Cardinality(snap[w]) > BatchLimit
        /\ sel[w] = Smallest(snap[w], BatchLimit)

\* C4 (monotonic status): in every step each job stays in the table and its
\* status stays the same, or moves Queued -> Running or Running -> Failed.
C4_MonotonicStatus ==
    [][\A id \in Ids :
          /\ id \in DOMAIN table'
          /\ \/ table'[id].status = table[id].status
             \/ table[id].status = "Queued" /\ table'[id].status = "Running"
             \/ table[id].status = "Running" /\ table'[id].status = "Failed"]_vars

\* A job has gone Queued -> Running -> Failed while others are Running and
\* Queued.
C4_Witness ==
    /\ \E id \in Ids : table[id].status = "Failed"
    /\ \E id \in Ids : table[id].status = "Running"
    /\ \E id \in Ids : table[id].status = "Queued"

\* C5 (no repeat): every id a statement returns was Queued in the table just
\* before the statement committed and had not been returned by any earlier
\* statement of any worker.
C5_NoRepeat ==
    [][\A w \in Workers :
          Len(returned'[w]) > Len(returned[w]) =>
              \A id \in Range(returned'[w][Len(returned'[w])]) :
                  /\ table[id].status = "Queued"
                  /\ \A v \in Workers : id \notin AllReturned(v)]_vars

\* A worker's second statement has returned rows after its first did, and
\* another worker's statement has returned rows too.
C5_Witness ==
    \E w, v \in Workers :
        /\ w # v
        /\ Len(returned[w]) >= 2 /\ returned[w][1] # <<>> /\ returned[w][2] # <<>>
        /\ Len(returned[v]) >= 1 /\ returned[v][1] # <<>>

\* C6 (scenario batches): the worker that inserted ids 1..20 into the empty
\* table gets ids 1..5 from its first statement and 6..10 from its second,
\* when no other worker has begun a claim.
C6_ScenarioBatches ==
    \A w \in Workers :
        (base[w] = Id(1) /\ Alone(w)) =>
            /\ Len(returned[w]) >= 1 => returned[w][1] = [i \in 1..5 |-> Id(i)]
            /\ Len(returned[w]) >= 2 => returned[w][2] = [i \in 1..5 |-> Id(i + 5)]

\* The second statement of that worker has returned.
C6_Witness ==
    \E w \in Workers :
        base[w] = Id(1) /\ Alone(w) /\ Len(returned[w]) >= 2 /\ Cardinality(Ids) = NumRows

\* The scenario of the 20 jobs with ids 1..20: some worker inserted its rows
\* into the empty table with a fresh sequence.
Scenario == \E u \in Workers : base[u] = Id(1)

\* C7 as stated: job #7 carries FollowUp(true), and once claimed and converted
\* its DomainJob has the email-send payload that was inserted.
C7_Original ==
    Scenario =>
        /\ DecodeOptParams(table[Id(7)].params) = Ok(Some(ParamsFollowUp(TRUE)))
        /\ \A w \in Workers : \A i \in 1..Len(domain_jobs[w]) :
              returned[w][1][i] = Id(7) =>
                  domain_jobs[w][i].payload = PayloadSendEmail(TheEmail)

\* C7 (scenario job #7), amended: job #7 is the only one of the 20 carrying
\* FollowUp(true), and its payload is NOOP; once it is claimed by a worker's
\* first statement and converted, its DomainJob is BATCH(2), Running, with
\* that NOOP payload (a DomainJob has no params).
C7_Amended ==
    Scenario =>
        /\ \A i \in 1..NumRows :
              (DecodeOptParams(table[Id(i)].params) = Ok(Some(ParamsFollowUp(TRUE))))
                  <=> (i = 7)
        /\ DecodePayload(table[Id(7)].payload) = Ok(PayloadNOOP)
        /\ \A w \in Workers : \A i \in 1..Len(domain_jobs[w]) :
              returned[w][1][i] = Id(7) =>
                  domain_jobs[w][i] = [identifier |-> FormatBatch(2),
                                       status     |-> "Running",
                                       payload    |-> PayloadNOOP]

\* Job #7 has been claimed by a first statement and converted.
C7_Witness ==
    /\ Scenario
    /\ \E w \in Workers : \E i \in 1..Len(domain_jobs[w]) : returned[w][1][i] = Id(7)

\* The errors of a row that does not decode.
DecodeErrors == {"ColumnDecode", "serde_json::Error"}

\* C8 as stated: when a worker has failed on a row that does not decode, no
\* row of that statement that cannot be decoded is Running in the store.
C8_DecodeFailureAborts ==
    \A w \in Workers :
        (pc[w] = "panicked" /\ err[w] \in DecodeErrors) =>
            \A id \in Range(returned[w][Len(returned[w])]) :
                ~RowDecodes(table[id]) => table[id].status # "Running"

\* The for loop of the first statement of w is over, by its end or by a
\* failed conversion.
LoopOneOver(w) ==
    \/ pc[w] # "panicked" /\ (round[w] >= 2 \/ pc[w] = "done")
    \/ pc[w] = "panicked" /\ err[w] = "TryFromIntError"

\* The identifiers of the rows of batch whose id is in the u32 range.
InRangeLabels(ids) ==
    LET ok == SelectSeq(ids, LAMBDA id : IsOk(U32TryFrom(id)))
    IN  [i \in 1..Len(ok) |-> FormatBatch(Div3(ok[i]))]

\* C9 as stated: once the loop over the first batch is over, the DomainJob
\* batch holds exactly the rows of the batch whose id is in range, a row out
\* of range being left out and the others converted.
C9_ConversionNarrowing ==
    \A w \in Workers :
        (Len(returned[w]) >= 1 /\ LoopOneOver(w)) =>
            [i \in 1..Len(domain_jobs[w]) |-> domain_jobs[w][i].identifier]
                = InRangeLabels(returned[w][1])

\* C10 (abort atomicity): the step in which a statement fails before its
\* commit leaves the table as it was; every row the transaction had locked
\* is Queued and locked by nobody, so the next claim can select it.
C10_AbortAtomicity ==
    [][\A w \in Workers :
          (pc[w] \in {"snapshot", "locked", "updated"} /\ pc'[w] = "panicked") =>
              /\ table' = table
              /\ \A id \in sel[w] :
                    /\ table'[id].status = "Queued"
                    /\ \A v \in Workers : id \notin sel'[v]]_vars

\* A transaction that had locked rows was rolled back, and another worker's
\* statement has since returned one of those rows.
C10_Witness ==
    \E w, v \in Workers :
        /\ w # v /\ pc[w] = "panicked" /\ err[w] = "Io"
        /\ rolled[w] \cap AllReturned(v) # {}

\* The statement of w has a next step to take: none of its steps has a guard
\* on the locks of the other transactions.
NeverWaits(w) ==
    /\ pc[w] = "snapshot" => ENABLED LockRows(w)
    /\ pc[w] = "locked" => ENABLED Update(w)
    /\ pc[w] = "updated" => ENABLED Commit(w)

\* C11 (no head-of-line blocking): a statement never waits for a row lock of
\* another transaction, and when it locks its rows while another transaction
\* holds locks without having committed, it selects the BatchLimit smallest
\* ids of its snapshot that are unlocked and still Queued, none of them locked
\* by the other.
C11_NoHeadOfLineBlocking ==
    /\ [](\A w \in Workers : NeverWaits(w))
    /\ [][\A w \in Workers :
             (pc[w] = "snapshot" /\ pc'[w] = "locked" /\ LockedByOthers(w) # {}) =>
                 /\ sel'[w] = Smallest({id \in snap[w] \ LockedByOthers(w) :
                                           table[id].status = "Queued"}, BatchLimit)
                 /\ sel'[w] \cap LockedByOthers(w) = {}]_vars

\* A worker holds the locks of its batch without having committed, and the
\* statement of another worker, begun when those rows were already locked, has
\* committed and returned a full batch of the rows that follow them.
C11_Witness ==
    \E w, v \in Workers :
        /\ w # v /\ pc[v] = "locked" /\ Cardinality(sel[v]) = BatchLimit
        /\ pc[w] = "fetched" /\ Len(batch[w]) = BatchLimit
        /\ \A i \in 1..Len(batch[w]) : \A id \in sel[v] : IdLess(id, batch[w][i].id)
        /\ AllReturned(v) = {}

\* The known variants, with some recipient addresses (one of them the name of
\* a variant).
Emails == {TheEmail, "", "NOOP"}
Payloads == {PayloadNOOP} \cup {PayloadSendEmail(e) : e \in Emails}
ParamsValues == {ParamsNOOP} \cup {ParamsFollowUp(b) : b \in BOOLEAN}

\* The row of the VALUES list that got id, as <<worker, row>>.
InsertedAs(id) ==
    {x \in Workers \X (1..NumRows) :
        base[x[1]] # Id(0) /\ id = IdAdd(base[x[1]], x[2] - 1)}

\* C12 (codec round-trip): decoding the encoding of a known Payload or Params
\* variant yields that variant, and every row a claim statement has returned
\* that this program inserted decodes to the payload and the params given to
\* the insert for it.
C12_CodecRoundTrip ==
    /\ \A v \in Payloads : DecodePayload(EncodePayload(v)) = Ok(v)
    /\ \A v \in ParamsValues : DecodeParams(EncodeParams(v)) = Ok(v)
    /\ \A w \in Workers : \A k \in 1..Len(batch[w]) :
          \A x \in InsertedAs(batch[w][k].id) :
              /\ DecodePayload(batch[w][k].payload) = Ok(PayloadArg(x[2]))
              /\ DecodeOptParams(batch[w][k].params) = Ok(ParamsArg(x[2]))

\* A statement has returned a batch of inserted rows holding an email payload
\* and FollowUp(true) params (rows 6..10), after the worker handled an email
\* of an earlier batch.
C12_Witness ==
    \E w \in Workers :
        /\ pc[w] = "fetched"
        /\ \A k \in 1..Len(batch[w]) : InsertedAs(batch[w][k].id) # {}
        /\ \E k \in 1..Len(batch[w]) :
              DecodeOptParams(batch[w][k].params) = Ok(Some(ParamsFollowUp(TRUE)))
        /\ \E k \in 1..Len(batch[w]) :
              DecodePayload(batch[w][k].payload) = Ok(PayloadSendEmail(TheEmail))
        /\ \E k \in 1..Len(handled[w]) : handled[w][k] = <<"EMAIL", "USER@EXAMPLE.COM">>

\* C13 (no locks across handler work): in the step in which work_on_payload
\* runs for the jobs of a batch, the worker holds no row lock and the
\* statement that returned those jobs has committed (the jobs are in its
\* returned batch and no longer Queued in the table); a worker that has its
\* rows in hand holds no lock.
C13_NoLocksAcrossHandler ==
    /\ [](\A w \in Workers : pc[w] = "fetched" => sel[w] = {})
    /\ [][\A w \in Workers :
             handled'[w] # handled[w] =>
                 /\ sel[w] = {} /\ sel'[w] = {}
                 /\ Len(returned[w]) = round[w]
                 /\ \A k \in 1..Len(batch[w]) :
                       /\ batch[w][k].id \in Range(returned[w][round[w]])
                       /\ table[batch[w][k].id].status # "Queued"]_vars

\* The handler has run for a full batch of a worker that holds no lock, while
\* another worker's transaction holds locks.
C13_Witness ==
    \E w, v \in Workers :
        /\ w # v /\ Len(handled[w]) = BatchLimit /\ sel[w] = {} /\ pc[w] = "claim"
        /\ InFlight(v) /\ sel[v] # {}

\* C14 (frame of a claim): the step in which a statement commits keeps the
\* ids of the table, the payload and params of every row and the whole of
\* every row the statement did not select (Running, Failed, locked by others
\* or left Queued), and sets the status of the selected rows to Running; the
\* earlier steps of the statement leave the table as it is.
C14_FrameOfClaim ==
    [][\A w \in Workers :
          /\ Len(returned'[w]) > Len(returned[w]) =>
                /\ DOMAIN table' = Ids
                /\ \A id \in Ids :
                      /\ table'[id].payload = table[id].payload
                      /\ table'[id].params = table[id].params
                      /\ id \notin sel[w] => table'[id] = table[id]
                      /\ id \in sel[w] => table'[id].status = "Running"
          /\ (pc[w] \in {"claim", "snapshot", "locked"} /\ pc'[w] # pc[w]) =>
                table' = table]_vars

\* A statement has committed a batch while the table held a Failed row and a
\* Running row outside the batch, rows locked by another transaction, and
\* rows left Queued and unlocked.
C14_Witness ==
    \E w, v \in Workers :
        /\ w # v /\ pc[w] = "fetched" /\ Len(batch[w]) = BatchLimit
        /\ InFlight(v) /\ sel[v] # {}
        /\ \E id \in Ids \ Range(returned[w][round[w]]) : table[id].status = "Failed"
        /\ \E id \in Ids \ Range(returned[w][round[w]]) : table[id].status = "Running"
        /\ \E id \in Ids \ sel[v] : table[id].status = "Queued"
        /\ \E id \in Range(returned[w][round[w]]) : table[id].params # None

\* C15 (shape of a claim result): the step in which a statement commits
\* returns at most BatchLimit rows; every returned row was Queued in the table
\* just before, is returned with status Running and is Running in the table
\* after; a statement whose snapshot holds no row that is unlocked and still
\* Queued selects nothing, returns the empty sequence and leaves the table as
\* it was.
C15_ClaimResultShape ==
    [][\A w \in Workers :
          /\ Len(returned'[w]) > Len(returned[w]) =>
                /\ Len(batch'[w]) <= BatchLimit
                /\ \A k \in 1..Len(batch'[w]) :
                      /\ batch'[w][k].id \in Ids
                      /\ table[batch'[w][k].id].status = "Queued"
                      /\ batch'[w][k].status = "Running"
                      /\ table'[batch'[w][k].id].status = "Running"
                /\ sel[w] = {} => batch'[w] = <<>> /\ table' = table
          /\ (/\ pc[w] = "snapshot" /\ pc'[w] = "locked"
              /\ \A id \in snap[w] \ LockedByOthers(w) : table[id].status # "Queued")
                => sel'[w] = {}]_vars

\* A statement has returned the empty sequence from a table that holds
\* Queued rows (its snapshot was taken before they were inserted), and
\* another statement has returned a full batch.
C15_Witness ==
    /\ QueuedIds # {}
    /\ \E c \in Returned : returned[c[1]][c[2]] = <<>>
    /\ \E c \in Returned : Len(returned[c[1]][c[2]]) = BatchLimit

\* 0 <= id <= 2^32 - 1, on the limbs of id.
InU32Range(id) == id[1] >= 0 /\ id[1] < IdBase

\* 3 * q as an id, for 0 <= q < 2^31.
Times3(q) ==
    LET qh == q \div IdBase
        ql == q % IdBase
    IN  <<3 * qh + ((3 * ql) \div IdBase), (3 * ql) % IdBase>>

\* q is id div 3: 3q <= id <= 3q + 2.
IsDiv3(q, id) == IdLeq(Times3(q), id) /\ IdLeq(id, IdAdd(Times3(q), 2))

\* a - n, for 0 <= n < 2^16.
IdSub(a, n) ==
    IF a[2] >= n THEN <<a[1], a[2] - n>> ELSE <<a[1] - 1, a[2] - n + IdBase>>

\* The first id of the group of 3 consecutive ids (0..2, 3..5, ..) that holds
\* a: 2^16 leaves the remainder 1 when divided by 3.
GroupStart(a) == IdSub(a, (a[1] + a[2]) % 3)

\* The row given to the conversion.
ConvRow ==
    LET id == CHOOSE x \in Ids : TRUE
    IN  [id |-> id, status |-> table[id].status, payload |-> table[id].payload]

\* C16 (result of conversion): the conversion of a row succeeds exactly when
\* 0 <= id <= 2^32 - 1 and fails otherwise, negative ids included; on success
\* the DomainJob has the row's status and payload and the identifier
\* BATCH(id div 3), and two ids in range get the same identifier exactly when
\* they are in the same group of 3 consecutive ids.  Stated on the pure
\* function over the rows of ConvRows and on what the loop of the first
\* statement leaves once it has run over such a row.
C16_ConversionResult ==
    /\ \A r \in ConvRows :
          LET value == [id |-> r.id, status |-> r.status,
                        payload |-> DecodePayload(r.payload)[2]]
              job == TryFromJobRow(value)
          IN  /\ IsOk(job) <=> InU32Range(r.id)
              /\ ~IsOk(job) => job = Err("TryFromIntError")
              /\ IsOk(job) =>
                    /\ job[2].status = r.status
                    /\ EncodePayload(job[2].payload) = r.payload
                    /\ IsDiv3(job[2].identifier[2], r.id)
                    /\ job[2].identifier = FormatBatch(job[2].identifier[2])
    /\ \A a, b \in {id \in ConvIds : InU32Range(id)} :
          (TryFromJobRow([id |-> a, status |-> "Running", payload |-> PayloadNOOP])
             = TryFromJobRow([id |-> b, status |-> "Running", payload |-> PayloadNOOP]))
          <=> (GroupStart(a) = GroupStart(b))
    /\ (pc[1] # "fetched" /\ Cardinality(Ids) = 1) =>
          LET r == ConvRow
          IN  /\ (pc[1] = "claim") <=> InU32Range(r.id)
              /\ (pc[1] = "panicked" /\ err[1] = "TryFromIntError") <=> ~InU32Range(r.id)
              /\ InU32Range(r.id) =>
                    /\ Len(domain_jobs[1]) = 1
                    /\ domain_jobs[1][1].status = r.status
                    /\ EncodePayload(domain_jobs[1][1].payload) = r.payload
                    /\ IsDiv3(domain_jobs[1][1].identifier[2], r.id)

\* The row with id u32::MAX has been converted, by the loop of the first
\* statement, into BATCH(1431655765).
C16_Witness ==
    /\ Ids = {U32Max} /\ pc[1] = "claim" /\ Len(domain_jobs[1]) = 1
    /\ domain_jobs[1][1].identifier = FormatBatch(21845 * (IdBase + 1))

RECURSIVE Flatten(_)
\* The batches of a sequence of batches, one after the other.
Flatten(bs) == IF bs = <<>> THEN <<>> ELSE Head(bs) \o Flatten(Tail(bs))

\* What work_on_payload prints for the job id, when its payload decodes.
HandlerOutput(id) ==
    LET payload == DecodePayload(table[id].payload)
    IN  IF IsOk(payload) THEN WorkOnPayload(payload[2]) ELSE <<"undecodable">>

\* The loops of w over the batches its statements have returned are over.
LoopsOver(w) == pc[w] # "fetched"

\* C17 as stated: once the loop over a returned batch is over, the handler
\* has been called exactly once for each job of every batch the worker's
\* statements have returned, batch after batch in the order of the rows, and
\* for nothing else; the handler has an output for every known payload.
C17_DispatchExactlyOnce ==
    /\ \A v \in Payloads :
          WorkOnPayload(v) \in {<<"NOOP!">>} \cup {<<"EMAIL", ToAsciiUppercase(e)>> : e \in Emails}
    /\ \A w \in Workers :
          LoopsOver(w) =>
              LET ids == Flatten(returned[w])
              IN  handled[w] = [n \in 1..Len(ids) |-> HandlerOutput(ids[n])]

\* The run of w is the only one to have acted, on a table that held no row
\* when it began, with no store error and no failure reported.
RunsAlone(w) ==
    /\ \A v \in Workers \ {w} : pc[v] = "insert"
    /\ \A id \in Ids : InsertedAs(id) # {} /\ table[id].status # "Failed"
    /\ err[w] # "Io"

\* The run of w has ended, by returning from main or by a panic.
Ended(w) == pc[w] \in {"done", "panicked"}

\* C18 as stated: in a run of main that is alone, on a table that held no
\* Queued job, with no store error, the k-th statement returns the 5 jobs with
\* the (5k-4)-th to (5k)-th smallest inserted ids, and when the run has ended
\* all four statements have returned and the 20 inserted jobs are Running.
C18_DrainOfOneRun ==
    \A w \in Workers :
        RunsAlone(w) =>
            /\ \A k \in 1..Len(returned[w]) :
                  returned[w][k] =
                      [i \in 1..BatchLimit |-> IdAdd(base[w], BatchLimit * (k - 1) + i - 1)]
            /\ Ended(w) =>
                  /\ Len(returned[w]) = NumRounds
                  /\ Cardinality(Ids) = NumRows
                  /\ \A id \in Ids : table[id].status = "Running"

=============================================================================
